---- MODULE Spec2Model ----
\* Model of the `cipher` traits crate: the block-cipher slice closure
\* (src/cipher/src/block.rs) and the block-level stream cipher core
\* (src/cipher/src/stream_core.rs).
\*
\* The crate is a set of traits.  Their provided methods are modelled from the
\* source.  Their required methods (the single-block transform, keystream
\* generation, the remaining-budget query, seeking) have no body in the crate:
\* they are modelled by one deterministic primitive that follows the documented
\* contract, with the counter wrapping around at CounterMax.
EXTENDS Integers, Sequences, FiniteSets, TLC

VARIABLES
    bs,        \* BlockSize::USIZE of the primitive
    lanes,     \* ParBlocksSize::USIZE of the backend
    key,       \* key of the primitive
    bounded,   \* TRUE when remaining_blocks() returns Some(_)
    counter,   \* block position of the stream cipher core
    consumed,  \* TRUE once the core was moved into try_apply_keystream_partial
    call       \* record of the last method call and what it did

vars == <<bs, lanes, key, bounded, counter, consumed, call>>

------------------------------------------------------------------------------
\* Bounds of the model.

\* Largest value of the (bounded) stream counter; the counter wraps after it.
CounterMax == 3
\* Largest number of blocks in a buffer of blocks.
MaxBlocks == 10
\* Largest number of complete blocks in a byte buffer given to
\* try_apply_keystream_partial (the buffer may hold up to BlockSize-1 more bytes).
MaxStreamBlocks == 2
\* Lane widths 1..MaxLanes.
MaxLanes == 4

\* Keys of the primitives.
Keys == {1, 2}
\* Data patterns that fill the input buffers.
Seeds == {0, 1}

\* Block sizes of the primitives.
BlockSizes == {2, 16}

\* Width of a byte (u8).
ByteBits == 8
\* Number of values of a byte.
ByteMod == 256
\* Option::None of remaining_blocks().
None == -1

------------------------------------------------------------------------------
\* Bytes and buffers.

Min(a, b) == IF a < b THEN a ELSE b

\* ceil(a / b)
CeilDiv(a, b) == (a + b - 1) \div b

RECURSIVE XorBits(_, _, _)
XorBits(a, b, w) ==
    IF w = 0 THEN 0
    ELSE (((a % 2) + (b % 2)) % 2) + 2 * XorBits(a \div 2, b \div 2, w - 1)

\* a ^ b on u8
XorByte(a, b) == XorBits(a, b, ByteBits)

\* The input data of pattern `seed` and length `len`.
Pattern(seed, len) == [i \in 1..len |-> ((seed * 101) + (i * 23) + 5) % ByteMod]

\* A buffer of `len` bytes the caller has not yet written: all 0xEE.
Fresh(len) == [i \in 1..len |-> 238]

\* GenericArray::default(): a zero block.
ZeroBlock(bsz) == [j \in 1..bsz |-> 0]

\* An InOutBuf: the input and the output side, whether both are the same
\* memory, and the log of the reads and writes made through it, each entry
\* <<"r" or "w", first byte, last byte>>.
\* InOutBuf::from(&mut [T]): an in-place view.
InOutBufFromMut(data) ==
    [inp |-> data, out |-> data, alias |-> TRUE, log |-> <<>>]

\* An InOutBuf over two disjoint slices of equal length.
InOutBufDisjoint(src, dst) ==
    [inp |-> src, out |-> dst, alias |-> FALSE, log |-> <<>>]

\* Number of bytes of the view.
BufLen(buf) == Len(buf.out)

\* ptr::read of bytes lo..hi of the input side.
ReadIn(buf, lo, hi) == [j \in 1..(hi - lo + 1) |-> buf.inp[lo + j - 1]]

LogRead(buf, lo, hi) == [buf EXCEPT !.log = Append(@, <<"r", lo, hi>>)]

\* ptr::write of `bytes` at lo.. of the output side; an in-place view has
\* one memory, so its input side changes too.
WriteOut(buf, lo, bytes) ==
    LET hi == lo + Len(bytes) - 1
        put(mem) == [k \in 1..Len(mem) |->
                        IF k >= lo /\ k <= hi THEN bytes[k - lo + 1] ELSE mem[k]]
    IN [inp |-> IF buf.alias THEN put(buf.inp) ELSE buf.inp,
        out |-> put(buf.out),
        alias |-> buf.alias,
        log |-> Append(buf.log, <<"w", lo, hi>>)]

------------------------------------------------------------------------------
\* The stream primitive: the required methods of StreamCipherCore and
\* StreamCipherSeekCore, modelled from their documented contract.

\* Byte j of the keystream block at position ctr: a function of (key, counter).
KsByte(k, ctr, j) == ((k * 89) + (ctr * 37) + (j * 11) + 7) % ByteMod

KsBlock(k, ctr, bsz) == [j \in 1..bsz |-> KsByte(k, ctr, j)]

\* The position i blocks after ctr; a bounded counter wraps around.
CounterAdd(ctr, i, bnd) == IF bnd THEN (ctr + i) % (CounterMax + 1) ELSE ctr + i

\* The next m keystream blocks from position ctr.
Keystream(k, ctr, bnd, m, bsz) ==
    [i \in 1..m |-> KsBlock(k, CounterAdd(ctr, i - 1, bnd), bsz)]

\* remaining_blocks(): blocks left before the counter wraps around, or None.
RemainingBlocks(ctr, bnd) == IF bnd THEN CounterMax - ctr ELSE None

------------------------------------------------------------------------------
\* apply_ks and the provided methods of StreamCipherCore.

\* A combine that stops one byte short of the block.
XorBlockShort(a, b, bsz) ==
    [j \in 1..bsz |-> IF j < bsz THEN XorByte(a[j], b[j]) ELSE 0]

\* A combine by wrapping addition.
XorBlockAdd(a, b, bsz) == [j \in 1..bsz |-> (a[j] + b[j]) % ByteMod]

\* res[j] = a[j] ^ b[j] for j in 0..N
XorBlock(a, b, bsz) == [j \in 1..bsz |-> XorByte(a[j], b[j])]

\* First and last byte of block i (from 0) of a buffer of blocks.
BlockLo(i, bsz) == (i * bsz) + 1
BlockHi(i, bsz) == (i + 1) * bsz

\* The loop of apply_ks from iteration i (from 1) on the chunk of Len(ks)
\* blocks that starts at block `first` of the view: read input block, read
\* keystream block, xor, write output block.
RECURSIVE ApplyKsFrom(_, _, _, _, _)
ApplyKsFrom(buf, first, ks, bsz, i) ==
    IF i > Len(ks) THEN buf
    ELSE LET lo == BlockLo(first + i - 1, bsz)
             hi == BlockHi(first + i - 1, bsz)
             a == ReadIn(buf, lo, hi)
             res == XorBlock(a, ks[i], bsz)
         IN ApplyKsFrom(WriteOut(LogRead(buf, lo, hi), lo, res), first, ks, bsz, i + 1)

\* A combine loop that stores the keystream block in the output and then
\* xors the input block into it: wrong when input and output are one memory.
RECURSIVE ApplyKsAccumulateFrom(_, _, _, _, _)
ApplyKsAccumulateFrom(buf, first, ks, bsz, i) ==
    IF i > Len(ks) THEN buf
    ELSE LET lo == BlockLo(first + i - 1, bsz)
             hi == BlockHi(first + i - 1, bsz)
             stored == WriteOut(buf, lo, ks[i])
             a == ReadIn(stored, lo, hi)
             res == XorBlock(a, ks[i], bsz)
         IN ApplyKsAccumulateFrom(WriteOut(LogRead(stored, lo, hi), lo, res),
                                  first, ks, bsz, i + 1)

ApplyKsAccumulate(buf, first, ks, bsz) == ApplyKsAccumulateFrom(buf, first, ks, bsz, 1)

\* apply_ks(blocks, ks), after its assertion.
ApplyKs(buf, first, ks, bsz) == ApplyKsFrom(buf, first, ks, bsz, 1)

\* The body of write_keystream_blocks: copy each keystream block into the chunk.
RECURSIVE CopyKsFrom(_, _, _, _, _)
CopyKsFrom(buf, first, ks, bsz, i) ==
    IF i > Len(ks) THEN buf
    ELSE CopyKsFrom(WriteOut(buf, BlockLo(first + i - 1, bsz), ks[i]),
                    first, ks, bsz, i + 1)

\* The state of a method of the core while it runs: counter, keystream blocks
\* generated, post_fn calls, the buffer, and whether an assertion failed.
CoreRun(ctr, buf) ==
    [ctr |-> ctr, gen |-> 0, post |-> 0, buf |-> buf, panic |-> FALSE]

\* The closure a provided method passes to process_with_keystream_blocks,
\* on the chunk of n blocks at block `first` with keystream ks.
Body(kind, s, first, n, ks, bsz) ==
    IF n # Len(ks) THEN [s EXCEPT !.panic = TRUE]
    ELSE IF kind = "apply"
         THEN [s EXCEPT !.buf = ApplyKs(s.buf, first, ks, bsz), !.post = @ + 1]
         ELSE [s EXCEPT !.buf = CopyKsFrom(s.buf, first, ks, bsz, 1)]

\* process_with_keystream_blocks(blocks, body) of the primitive: the n blocks
\* from block `first` in chunks of at most par blocks, one keystream block per
\* block, the counter advanced by one per keystream block.
RECURSIVE ProcessWithKeystreamBlocks(_, _, _, _, _, _, _, _)
ProcessWithKeystreamBlocks(kind, s, first, n, k, bnd, par, bsz) ==
    IF n = 0 \/ s.panic THEN s
    ELSE LET m == Min(n, par)
             ks == Keystream(k, s.ctr, bnd, m, bsz)
             t == Body(kind, s, first, m, ks, bsz)
             u == [t EXCEPT !.ctr = CounterAdd(s.ctr, m, bnd), !.gen = @ + m]
         IN ProcessWithKeystreamBlocks(kind, u, first + m, n - m, k, bnd, par, bsz)

\* apply_keystream_blocks(blocks, post_fn) on the n blocks from block `first`.
ApplyKeystreamBlocks(s, first, n, k, bnd, par, bsz) ==
    ProcessWithKeystreamBlocks("apply", s, first, n, k, bnd, par, bsz)

\* write_keystream_blocks(buf)
WriteKeystreamBlocks(s, n, k, bnd, par, bsz) ==
    ProcessWithKeystreamBlocks("write", s, 0, n, k, bnd, par, bsz)

\* The number of blocks try_apply_keystream_partial compares with the budget.
BudgetBlocks(len, bsz) ==
    IF len % bsz = 0 THEN len % bsz ELSE (len % bsz) + 1

\* The budget check of try_apply_keystream_partial fails.
BudgetExceeded(ctr, len, bnd, bsz) ==
    LET rem == RemainingBlocks(ctr, bnd)
    IN rem # None /\ BudgetBlocks(len, bsz) > rem

\* Result of a method of the core.
CoreResult(res, s) ==
    [res |-> res, ctr |-> s.ctr, gen |-> s.gen, post |-> s.post,
     buf |-> s.buf, panic |-> s.panic]

\* try_apply_keystream_partial after the budget check: the complete leading
\* blocks when the buffer is longer than a block, then the rest through a
\* zero-padded scratch block.
PartialApply(ctr, buf, k, bnd, par, bsz) ==
    LET len == BufLen(buf)
        s0 == CoreRun(ctr, buf)
        nfull == IF len > bsz THEN len \div bsz ELSE 0
        s1 == IF len > bsz
              THEN ApplyKeystreamBlocks(s0, 0, nfull, k, bnd, par, bsz)
              ELSE s0
        off == nfull * bsz
        n == len - off
    IN IF n = 0 THEN CoreResult("Ok", s1)
       ELSE LET tail == ReadIn(s1.buf, off + 1, len)
                block == [j \in 1..bsz |-> IF j <= n THEN tail[j] ELSE ZeroBlock(bsz)[j]]
                t == InOutBufFromMut(block)
                s2 == ApplyKeystreamBlocks([s1 EXCEPT !.buf = t], 0, 1, k, bnd, par, bsz)
                done == WriteOut(LogRead(s1.buf, off + 1, len), off + 1,
                                 SubSeq(s2.buf.out, 1, n))
            IN CoreResult("Ok", [s2 EXCEPT !.buf = done])

\* A try_apply_keystream_partial that checks the budget after applying.
TryApplyKeystreamPartialLateCheck(ctr, buf, k, bnd, par, bsz) ==
    LET r == PartialApply(ctr, buf, k, bnd, par, bsz)
    IN IF BudgetExceeded(ctr, BufLen(buf), bnd, bsz)
       THEN [r EXCEPT !.res = "Err"]
       ELSE r

\* try_apply_keystream_partial(self, buf)
TryApplyKeystreamPartial(ctr, buf, k, bnd, par, bsz) ==
    IF BudgetExceeded(ctr, BufLen(buf), bnd, bsz)
    THEN CoreResult("Err", CoreRun(ctr, buf))
    ELSE PartialApply(ctr, buf, k, bnd, par, bsz)

\* apply_keystream_partial(self, buf): try_apply_keystream_partial(buf).unwrap()
ApplyKeystreamPartial(ctr, buf, k, bnd, par, bsz) ==
    LET r == TryApplyKeystreamPartial(ctr, buf, k, bnd, par, bsz)
    IN IF r.res = "Err" THEN [r EXCEPT !.res = "Panic", !.panic = TRUE] ELSE r

------------------------------------------------------------------------------
\* The block backend and the closures (block.rs).

\* The state of a backend while a closure drives it: its chaining value, the
\* buffer, the blocks proc_block was called on (in call order), the
\* proc_par_blocks and proc_tail_blocks calls <<kind, first block, blocks>>
\* (in call order), and whether an assertion failed.
BackendRun(k, buf) ==
    [st |-> (k * 17) % ByteMod, buf |-> buf, trace |-> <<>>, disp |-> <<>>,
     panic |-> FALSE]

\* The single-block transform of the primitive on a block, under chaining
\* value st: a keyed byte substitution, and its inverse.
EncBlock(a, st, k, bsz) == [j \in 1..bsz |-> (XorByte(a[j], st) + k + j) % ByteMod]
DecBlock(c, st, k, bsz) ==
    [j \in 1..bsz |-> XorByte((c[j] + (2 * ByteMod) - k - j) % ByteMod, st)]

\* proc_block on block i (from 0) of the buffer: the block is read, transformed
\* and written; the chaining value becomes the first ciphertext byte.
ProcBlock(bk, i, dir, k, bsz) ==
    LET lo == BlockLo(i, bsz)
        hi == BlockHi(i, bsz)
        a == ReadIn(bk.buf, lo, hi)
        res == IF dir = "enc" THEN EncBlock(a, bk.st, k, bsz)
                              ELSE DecBlock(a, bk.st, k, bsz)
    IN [bk EXCEPT !.buf = WriteOut(LogRead(bk.buf, lo, hi), lo, res),
                  !.st = IF dir = "enc" THEN res[1] ELSE a[1],
                  !.trace = Append(@, i)]

\* proc_block on blocks first+i .. first+n-1, in index order.
RECURSIVE ProcBlocksFrom(_, _, _, _, _, _, _)
ProcBlocksFrom(bk, first, n, i, dir, k, bsz) ==
    IF i >= n THEN bk
    ELSE ProcBlocksFrom(ProcBlock(bk, first + i, dir, k, bsz),
                        first, n, i + 1, dir, k, bsz)

\* proc_block on blocks first+n-1 down to first.
RECURSIVE ProcBlocksDownFrom(_, _, _, _, _, _)
ProcBlocksDownFrom(bk, first, n, dir, k, bsz) ==
    IF n = 0 THEN bk
    ELSE ProcBlocksDownFrom(ProcBlock(bk, first + n - 1, dir, k, bsz),
                            first, n - 1, dir, k, bsz)

\* A lane-group handler that walks its lanes from the last to the first.
ProcParBlocksReversed(bk, first, L, dir, k, bsz) ==
    ProcBlocksDownFrom([bk EXCEPT !.disp = Append(@, <<"par", first, L>>)],
                       first, L, dir, k, bsz)

\* The default proc_par_blocks on the group of L blocks at block `first`.
ProcParBlocks(bk, first, L, dir, k, bsz) ==
    ProcBlocksFrom([bk EXCEPT !.disp = Append(@, <<"par", first, L>>)],
                   first, L, 0, dir, k, bsz)

\* The default proc_tail_blocks on the n blocks at block `first`.
ProcTailBlocks(bk, first, n, L, dir, k, bsz) ==
    LET called == [bk EXCEPT !.disp = Append(@, <<"tail", first, n>>)]
    IN IF ~(n < L) THEN [called EXCEPT !.panic = TRUE]
       ELSE ProcBlocksFrom(called, first, n, 0, dir, k, bsz)

\* A chunking that leaves a whole group of L blocks in the tail when L divides n.
IntoChunksFullTail(n, L) ==
    IF n > 0 /\ n % L = 0 THEN (n \div L) - 1 ELSE n \div L

\* InOutBuf::into_chunks: the number of full groups of L among n blocks.
IntoChunks(n, L) == n \div L

\* `for chunk in chunks { backend.proc_par_blocks(chunk) }` from group c.
RECURSIVE ParLoop(_, _, _, _, _, _, _)
ParLoop(bk, c, nchunks, L, dir, k, bsz) ==
    IF c >= nchunks \/ bk.panic THEN bk
    ELSE ParLoop(ProcParBlocks(bk, c * L, L, dir, k, bsz),
                 c + 1, nchunks, L, dir, k, bsz)

\* A slice closure that hands the tail to the backend before the full groups.
BlocksCtxCallTailFirst(bk, n, L, dir, k, bsz) ==
    IF L > 1
    THEN LET nchunks == IntoChunks(n, L)
             tailed == ProcTailBlocks(bk, nchunks * L, n - (nchunks * L), L, dir, k, bsz)
         IN IF tailed.panic THEN tailed
            ELSE ParLoop(tailed, 0, nchunks, L, dir, k, bsz)
    ELSE ProcBlocksFrom(bk, 0, n, 0, dir, k, bsz)

\* BlocksCtx::call on a view of n blocks with a backend of lane width L.
BlocksCtxCall(bk, n, L, dir, k, bsz) ==
    IF L > 1
    THEN LET nchunks == IntoChunks(n, L)
             grouped == ParLoop(bk, 0, nchunks, L, dir, k, bsz)
         IN IF grouped.panic THEN grouped
            ELSE ProcTailBlocks(grouped, nchunks * L, n - (nchunks * L), L, dir, k, bsz)
    ELSE ProcBlocksFrom(bk, 0, n, 0, dir, k, bsz)

\* BlockCtx::call: proc_block on the one block of the view, whatever the lane
\* width of the backend.
BlockCtxCall(bk, dir, k, bsz) == ProcBlock(bk, 0, dir, k, bsz)

\* Result of a method of the block traits.
BlockResult(res, bk) ==
    [res |-> res, buf |-> bk.buf, trace |-> bk.trace, disp |-> bk.disp,
     panic |-> bk.panic]

\* encrypt_with_backend / decrypt_with_backend given a BlocksCtx: a backend
\* of the cipher is made and the closure called on it.
WithBackend(buf, L, dir, k, bsz) ==
    LET bk == BlocksCtxCall(BackendRun(k, buf), BufLen(buf) \div bsz, L, dir, k, bsz)
    IN BlockResult(IF bk.panic THEN "Panic" ELSE "Ok", bk)

\* encrypt_with_backend / decrypt_with_backend given a BlockCtx.
WithBackendBlock(buf, dir, k, bsz) ==
    BlockResult("Ok", BlockCtxCall(BackendRun(k, buf), dir, k, bsz))

\* A buffer-to-buffer method that accepts slices of different lengths and
\* processes as many blocks as both hold.
BlocksB2bTruncating(src, dst, L, dir, k, bsz) ==
    LET n == Min(Len(src), Len(dst))
        r == WithBackend(InOutBufDisjoint(SubSeq(src, 1, n), SubSeq(dst, 1, n)),
                         L, dir, k, bsz)
    IN [r EXCEPT !.buf.out = @ \o SubSeq(dst, n + 1, Len(dst))]

\* InOutBuf::new(in_blocks, out_blocks).map(|blocks| ..with_backend(BlocksCtx { blocks }))
BlocksB2b(src, dst, L, dir, k, bsz) ==
    IF Len(src) # Len(dst)
    THEN BlockResult("Err", BackendRun(k, InOutBufDisjoint(src, dst)))
    ELSE WithBackend(InOutBufDisjoint(src, dst), L, dir, k, bsz)

\* encrypt_blocks_b2b, decrypt_blocks_b2b and, through the blanket
\* implementations of the Mut traits, their _mut variants.
EncryptBlocksB2b(src, dst, L, k, bsz) == BlocksB2b(src, dst, L, "enc", k, bsz)
DecryptBlocksB2b(src, dst, L, k, bsz) == BlocksB2b(src, dst, L, "dec", k, bsz)
EncryptBlocksB2bMut(src, dst, L, k, bsz) == EncryptBlocksB2b(src, dst, L, k, bsz)
DecryptBlocksB2bMut(src, dst, L, k, bsz) == DecryptBlocksB2b(src, dst, L, k, bsz)

\* encrypt_blocks / decrypt_blocks: in place.
EncryptBlocks(data, L, k, bsz) == WithBackend(InOutBufFromMut(data), L, "enc", k, bsz)
DecryptBlocks(data, L, k, bsz) == WithBackend(InOutBufFromMut(data), L, "dec", k, bsz)

\* encrypt_block_inout, encrypt_block and encrypt_block_b2b: one block through BlockCtx.
EncryptBlockInout(buf, k, bsz) == WithBackendBlock(buf, "enc", k, bsz)
EncryptBlock(block, k, bsz) == WithBackendBlock(InOutBufFromMut(block), "enc", k, bsz)
EncryptBlockB2b(src, dst, k, bsz) == WithBackendBlock(InOutBufDisjoint(src, dst), "enc", k, bsz)

\* encrypt_blocks_inout: the caller's view of blocks through BlocksCtx.
EncryptBlocksInout(buf, L, k, bsz) == WithBackend(buf, L, "enc", k, bsz)

\* The _mut variants: encrypt_with_backend_mut of the blanket implementation
\* calls encrypt_with_backend.
EncryptBlockInoutMut(buf, k, bsz) == EncryptBlockInout(buf, k, bsz)
EncryptBlockMut(block, k, bsz) == EncryptBlock(block, k, bsz)
EncryptBlockB2bMut(src, dst, k, bsz) == EncryptBlockB2b(src, dst, k, bsz)
EncryptBlocksInoutMut(buf, L, k, bsz) == EncryptBlocksInout(buf, L, k, bsz)
EncryptBlocksMut(data, L, k, bsz) == EncryptBlocks(data, L, k, bsz)

\* decrypt_block_inout, decrypt_block and decrypt_block_b2b: one block through BlockCtx.
DecryptBlockInout(buf, k, bsz) == WithBackendBlock(buf, "dec", k, bsz)
DecryptBlock(block, k, bsz) == WithBackendBlock(InOutBufFromMut(block), "dec", k, bsz)
DecryptBlockB2b(src, dst, k, bsz) == WithBackendBlock(InOutBufDisjoint(src, dst), "dec", k, bsz)

\* decrypt_blocks_inout: the caller's view of blocks through BlocksCtx.
DecryptBlocksInout(buf, L, k, bsz) == WithBackend(buf, L, "dec", k, bsz)

\* The _mut variants: decrypt_with_backend_mut of the blanket implementation
\* calls decrypt_with_backend.
DecryptBlockInoutMut(buf, k, bsz) == DecryptBlockInout(buf, k, bsz)
DecryptBlockMut(block, k, bsz) == DecryptBlock(block, k, bsz)
DecryptBlockB2bMut(src, dst, k, bsz) == DecryptBlockB2b(src, dst, k, bsz)
DecryptBlocksInoutMut(buf, L, k, bsz) == DecryptBlocksInout(buf, L, k, bsz)
DecryptBlocksMut(data, L, k, bsz) == DecryptBlocks(data, L, k, bsz)

------------------------------------------------------------------------------
\* The program: one stream cipher core and one block cipher, and the calls a
\* caller makes on them.

LaneWidths == 1..MaxLanes

\* Chunk widths of the stream primitive: block by block, or in chunks.
StreamLanes == {1, MaxStreamBlocks}

\* Lengths of the byte buffers given to try_apply_keystream_partial: around
\* every multiple of the block size.
PartialLens(bsz) ==
    {(n * bsz) + d : n \in 0..MaxStreamBlocks, d \in {0, 1, bsz - 1}}

NoCall ==
    [op |-> "none", res |-> "none", start |-> 0, input |-> <<>>,
     alias |-> FALSE, before |-> <<>>, out |-> <<>>, log |-> <<>>, gen |-> 0,
     post |-> 0, trace |-> <<>>, disp |-> <<>>, panic |-> FALSE,
     chained |-> FALSE, prevIn |-> <<>>, endpos |-> 0]

\* The input and output slices of a call: in place, or into a buffer the
\* caller has not written yet.
View(data, alias) ==
    IF alias THEN InOutBufFromMut(data) ELSE InOutBufDisjoint(data, Fresh(Len(data)))

StreamCall(op, data, alias, r, chained, prevIn) ==
    [op |-> op, res |-> r.res, start |-> counter, input |-> data,
     alias |-> alias, before |-> View(data, alias).out, out |-> r.buf.out,
     log |-> r.buf.log, gen |-> r.gen, post |-> r.post, trace |-> <<>>,
     disp |-> <<>>, panic |-> r.panic, chained |-> chained, prevIn |-> prevIn,
     endpos |-> r.ctr]

BlockCall(op, src, dst, alias, r) ==
    [op |-> op, res |-> r.res, start |-> 0, input |-> src,
     alias |-> alias, before |-> dst, out |-> r.buf.out,
     log |-> r.buf.log, gen |-> 0, post |-> 0, trace |-> r.trace,
     disp |-> r.disp, panic |-> r.panic, chained |-> FALSE, prevIn |-> <<>>,
     endpos |-> 0]

StreamOps == {"write_keystream_blocks", "apply_keystream_blocks",
              "try_apply_keystream_partial", "apply_keystream_partial"}
ApplyOps == {"apply_keystream_blocks", "try_apply_keystream_partial",
            "apply_keystream_partial"}

\* No call's buffers are held by the caller.
Idle == call.op = "none"

\* The caller may hand the output of the last successful application back to
\* the cipher once it has sought back to where that application started.
CanReuse ==
    /\ call.op \in ApplyOps
    /\ call.res = "Ok"
    /\ ~call.chained
    /\ counter = call.start

\* An unbounded counter is followed up to CounterMax only.
InRange(ctr) == bounded \/ ctr <= CounterMax

CallWriteKeystreamBlocks ==
    /\ ~consumed
    /\ Idle
    /\ \E n \in 0..(MaxStreamBlocks + 1) :
         LET data == Fresh(n * bs)
             r == CoreResult("Ok", WriteKeystreamBlocks(
                      CoreRun(counter, InOutBufFromMut(data)), n, key, bounded, lanes, bs))
         IN /\ InRange(r.ctr)
            /\ counter' = r.ctr
            /\ call' = StreamCall("write_keystream_blocks", data, TRUE, r, FALSE, <<>>)
    /\ UNCHANGED <<bs, lanes, key, bounded, consumed>>

ApplyKeystreamBlocksOn(data, alias, chained, prevIn) ==
    LET r == CoreResult("Ok", ApplyKeystreamBlocks(
                 CoreRun(counter, View(data, alias)), 0, Len(data) \div bs,
                 key, bounded, lanes, bs))
    IN /\ InRange(r.ctr)
       /\ counter' = r.ctr
       /\ call' = StreamCall("apply_keystream_blocks", data, alias, r, chained, prevIn)

CallApplyKeystreamBlocks ==
    /\ ~consumed
    /\ \E alias \in BOOLEAN :
         \/ /\ Idle
            /\ \E n \in 0..(MaxStreamBlocks + 1), seed \in Seeds :
                 ApplyKeystreamBlocksOn(Pattern(seed, n * bs), alias, FALSE, <<>>)
         \/ /\ CanReuse
            /\ Len(call.out) % bs = 0
            /\ ApplyKeystreamBlocksOn(call.out, alias, TRUE, call.input)
    /\ UNCHANGED <<bs, lanes, key, bounded, consumed>>

TryApplyKeystreamPartialOn(data, alias, chained, prevIn) ==
    LET r == TryApplyKeystreamPartial(counter, View(data, alias), key, bounded, lanes, bs)
    IN /\ InRange(r.ctr)
       /\ counter' = r.ctr
       /\ call' = StreamCall("try_apply_keystream_partial", data, alias, r, chained, prevIn)

\* try_apply_keystream_partial takes the core by value.
CallTryApplyKeystreamPartial ==
    /\ ~consumed
    /\ \E alias \in BOOLEAN :
         \/ /\ Idle
            /\ \E len \in PartialLens(bs), seed \in Seeds :
                 TryApplyKeystreamPartialOn(Pattern(seed, len), alias, FALSE, <<>>)
         \/ /\ CanReuse
            /\ TryApplyKeystreamPartialOn(call.out, alias, TRUE, call.input)
    /\ consumed' = TRUE
    /\ UNCHANGED <<bs, lanes, key, bounded>>

ApplyKeystreamPartialOn(data, alias, chained, prevIn) ==
    LET r == ApplyKeystreamPartial(counter, View(data, alias), key, bounded, lanes, bs)
    IN /\ InRange(r.ctr)
       /\ counter' = r.ctr
       /\ call' = StreamCall("apply_keystream_partial", data, alias, r, chained, prevIn)

\* apply_keystream_partial takes the core by value; when it panics the core
\* is dropped, and the caller keeps its buffer.
CallApplyKeystreamPartial ==
    /\ ~consumed
    /\ \E alias \in BOOLEAN :
         \/ /\ Idle
            /\ \E len \in PartialLens(bs), seed \in Seeds :
                 ApplyKeystreamPartialOn(Pattern(seed, len), alias, FALSE, <<>>)
         \/ /\ CanReuse
            /\ ApplyKeystreamPartialOn(call.out, alias, TRUE, call.input)
    /\ consumed' = TRUE
    /\ UNCHANGED <<bs, lanes, key, bounded>>

\* Where the caller seeks: anywhere, or, while it holds the output of an
\* application, back to where that application started.
SeekTargets == IF Idle THEN 0..CounterMax ELSE {call.start}

\* set_block_pos(pos)
SetBlockPos ==
    /\ ~consumed
    /\ \E pos \in SeekTargets : counter' = pos
    /\ UNCHANGED <<bs, lanes, key, bounded, consumed, call>>

\* A new core of the same primitive and key, at position 0.
NewCore ==
    /\ consumed
    /\ consumed' = FALSE
    /\ counter' = 0
    /\ UNCHANGED <<bs, lanes, key, bounded, call>>

\* The caller is done with the buffers of the last call.
Release ==
    /\ ~Idle
    /\ call' = NoCall
    /\ UNCHANGED <<bs, lanes, key, bounded, counter, consumed>>

B2bCall(op, r, src, dst) ==
    /\ Idle
    /\ call' = BlockCall(op, src, dst, FALSE, r)
    /\ UNCHANGED <<bs, lanes, key, bounded, counter, consumed>>

CallEncryptBlocksB2b ==
    \E n \in 0..MaxBlocks, m \in 0..MaxBlocks, seed \in Seeds :
        LET src == Pattern(seed, n * bs)
            dst == Fresh(m * bs)
        IN B2bCall("encrypt_blocks_b2b", EncryptBlocksB2b(src, dst, lanes, key, bs), src, dst)

CallDecryptBlocksB2b ==
    \E n \in 0..MaxBlocks, m \in 0..MaxBlocks, seed \in Seeds :
        LET src == Pattern(seed, n * bs)
            dst == Fresh(m * bs)
        IN B2bCall("decrypt_blocks_b2b", DecryptBlocksB2b(src, dst, lanes, key, bs), src, dst)

CallEncryptBlocksB2bMut ==
    \E n \in 0..MaxBlocks, m \in 0..MaxBlocks, seed \in Seeds :
        LET src == Pattern(seed, n * bs)
            dst == Fresh(m * bs)
        IN B2bCall("encrypt_blocks_b2b_mut", EncryptBlocksB2bMut(src, dst, lanes, key, bs), src, dst)

CallDecryptBlocksB2bMut ==
    \E n \in 0..MaxBlocks, m \in 0..MaxBlocks, seed \in Seeds :
        LET src == Pattern(seed, n * bs)
            dst == Fresh(m * bs)
        IN B2bCall("decrypt_blocks_b2b_mut", DecryptBlocksB2bMut(src, dst, lanes, key, bs), src, dst)

CallEncryptBlocks ==
    /\ Idle
    /\ \E n \in 0..MaxBlocks, seed \in Seeds :
         LET data == Pattern(seed, n * bs)
         IN call' = BlockCall("encrypt_blocks", data, data, TRUE,
                              EncryptBlocks(data, lanes, key, bs))
    /\ UNCHANGED <<bs, lanes, key, bounded, counter, consumed>>

CallDecryptBlocks ==
    /\ Idle
    /\ \E n \in 0..MaxBlocks, seed \in Seeds :
         LET data == Pattern(seed, n * bs)
         IN call' = BlockCall("decrypt_blocks", data, data, TRUE,
                              DecryptBlocks(data, lanes, key, bs))
    /\ UNCHANGED <<bs, lanes, key, bounded, counter, consumed>>

\* A call on a view the caller made: in place, or from an input and an output
\* of the same length.
InOutCall(op, r, data, alias) ==
    /\ Idle
    /\ call' = BlockCall(op, data, View(data, alias).out, alias, r)
    /\ UNCHANGED <<bs, lanes, key, bounded, counter, consumed>>

CallEncryptBlockInout ==
    \E seed \in Seeds, alias \in BOOLEAN :
        LET data == Pattern(seed, bs)
        IN InOutCall("encrypt_block_inout", EncryptBlockInout(View(data, alias), key, bs), data, alias)

CallEncryptBlock ==
    \E seed \in Seeds :
        LET data == Pattern(seed, bs)
        IN InOutCall("encrypt_block", EncryptBlock(data, key, bs), data, TRUE)

CallEncryptBlockB2b ==
    \E seed \in Seeds :
        LET src == Pattern(seed, bs)
            dst == Fresh(bs)
        IN B2bCall("encrypt_block_b2b", EncryptBlockB2b(src, dst, key, bs), src, dst)

CallEncryptBlocksInout ==
    \E n \in 0..MaxBlocks, seed \in Seeds, alias \in BOOLEAN :
        LET data == Pattern(seed, n * bs)
        IN InOutCall("encrypt_blocks_inout",
                     EncryptBlocksInout(View(data, alias), lanes, key, bs), data, alias)

CallEncryptBlockInoutMut ==
    \E seed \in Seeds, alias \in BOOLEAN :
        LET data == Pattern(seed, bs)
        IN InOutCall("encrypt_block_inout_mut", EncryptBlockInoutMut(View(data, alias), key, bs), data, alias)

CallEncryptBlockMut ==
    \E seed \in Seeds :
        LET data == Pattern(seed, bs)
        IN InOutCall("encrypt_block_mut", EncryptBlockMut(data, key, bs), data, TRUE)

CallEncryptBlockB2bMut ==
    \E seed \in Seeds :
        LET src == Pattern(seed, bs)
            dst == Fresh(bs)
        IN B2bCall("encrypt_block_b2b_mut", EncryptBlockB2bMut(src, dst, key, bs), src, dst)

CallEncryptBlocksInoutMut ==
    \E n \in 0..MaxBlocks, seed \in Seeds, alias \in BOOLEAN :
        LET data == Pattern(seed, n * bs)
        IN InOutCall("encrypt_blocks_inout_mut",
                     EncryptBlocksInoutMut(View(data, alias), lanes, key, bs), data, alias)

CallEncryptBlocksMut ==
    \E n \in 0..MaxBlocks, seed \in Seeds :
        LET data == Pattern(seed, n * bs)
        IN InOutCall("encrypt_blocks_mut", EncryptBlocksMut(data, lanes, key, bs), data, TRUE)

CallDecryptBlockInout ==
    \E seed \in Seeds, alias \in BOOLEAN :
        LET data == Pattern(seed, bs)
        IN InOutCall("decrypt_block_inout", DecryptBlockInout(View(data, alias), key, bs), data, alias)

CallDecryptBlock ==
    \E seed \in Seeds :
        LET data == Pattern(seed, bs)
        IN InOutCall("decrypt_block", DecryptBlock(data, key, bs), data, TRUE)

CallDecryptBlockB2b ==
    \E seed \in Seeds :
        LET src == Pattern(seed, bs)
            dst == Fresh(bs)
        IN B2bCall("decrypt_block_b2b", DecryptBlockB2b(src, dst, key, bs), src, dst)

CallDecryptBlocksInout ==
    \E n \in 0..MaxBlocks, seed \in Seeds, alias \in BOOLEAN :
        LET data == Pattern(seed, n * bs)
        IN InOutCall("decrypt_blocks_inout",
                     DecryptBlocksInout(View(data, alias), lanes, key, bs), data, alias)

CallDecryptBlockInoutMut ==
    \E seed \in Seeds, alias \in BOOLEAN :
        LET data == Pattern(seed, bs)
        IN InOutCall("decrypt_block_inout_mut", DecryptBlockInoutMut(View(data, alias), key, bs), data, alias)

CallDecryptBlockMut ==
    \E seed \in Seeds :
        LET data == Pattern(seed, bs)
        IN InOutCall("decrypt_block_mut", DecryptBlockMut(data, key, bs), data, TRUE)

CallDecryptBlockB2bMut ==
    \E seed \in Seeds :
        LET src == Pattern(seed, bs)
            dst == Fresh(bs)
        IN B2bCall("decrypt_block_b2b_mut", DecryptBlockB2bMut(src, dst, key, bs), src, dst)

CallDecryptBlocksInoutMut ==
    \E n \in 0..MaxBlocks, seed \in Seeds, alias \in BOOLEAN :
        LET data == Pattern(seed, n * bs)
        IN InOutCall("decrypt_blocks_inout_mut",
                     DecryptBlocksInoutMut(View(data, alias), lanes, key, bs), data, alias)

CallDecryptBlocksMut ==
    \E n \in 0..MaxBlocks, seed \in Seeds :
        LET data == Pattern(seed, n * bs)
        IN InOutCall("decrypt_blocks_mut", DecryptBlocksMut(data, lanes, key, bs), data, TRUE)

\* A stream primitive, and a core of it at position 0.
StreamInit ==
    /\ bs \in BlockSizes
    /\ lanes \in StreamLanes
    /\ key \in Keys
    /\ bounded \in BOOLEAN
    /\ counter = 0
    /\ consumed = FALSE
    /\ call = NoCall

\* A block cipher with a backend of some lane width.
BlockInit ==
    /\ bs \in BlockSizes
    /\ lanes \in LaneWidths
    /\ key \in Keys
    /\ bounded = TRUE
    /\ counter = 0
    /\ consumed = FALSE
    /\ call = NoCall

StreamNext ==
    \/ CallWriteKeystreamBlocks
    \/ CallApplyKeystreamBlocks
    \/ CallTryApplyKeystreamPartial
    \/ CallApplyKeystreamPartial
    \/ SetBlockPos
    \/ NewCore
    \/ Release

BlockNext ==
    \/ CallEncryptBlocksB2b
    \/ CallDecryptBlocksB2b
    \/ CallEncryptBlocksB2bMut
    \/ CallDecryptBlocksB2bMut
    \/ CallEncryptBlocks
    \/ CallDecryptBlocks
    \/ CallEncryptBlockInout
    \/ CallEncryptBlock
    \/ CallEncryptBlockB2b
    \/ CallEncryptBlocksInout
    \/ CallEncryptBlockInoutMut
    \/ CallEncryptBlockMut
    \/ CallEncryptBlockB2bMut
    \/ CallEncryptBlocksInoutMut
    \/ CallEncryptBlocksMut
    \/ CallDecryptBlockInout
    \/ CallDecryptBlock
    \/ CallDecryptBlockB2b
    \/ CallDecryptBlocksInout
    \/ CallDecryptBlockInoutMut
    \/ CallDecryptBlockMut
    \/ CallDecryptBlockB2bMut
    \/ CallDecryptBlocksInoutMut
    \/ CallDecryptBlocksMut
    \/ Release

\* The stream cipher core and its callers.
StreamSpec == StreamInit /\ [][StreamNext]_vars

\* The block cipher and its callers.
BlockSpec == BlockInit /\ [][BlockNext]_vars

------------------------------------------------------------------------------
\* Properties of try_apply_keystream_partial.

\* The last call was try_apply_keystream_partial.
IsPartial == call.op = "try_apply_keystream_partial"

\* remaining_blocks() when the last call started.
RemAtCall == RemainingBlocks(call.start, bounded)

\* ceil(len / BlockSize) of the buffer of the last call.
BlocksNeeded == CeilDiv(Len(call.input), bs)

\* The keystream byte that byte i (from 1) of a buffer meets when the
\* keystream starts at block position `start`.
KeystreamByteAt(start, i) ==
    KsByte(key, CounterAdd(start, (i - 1) \div bs, bounded), ((i - 1) % bs) + 1)

\* C1: whenever remaining_blocks() is Some(rem) and ceil(len / BlockSize) > rem,
\* try_apply_keystream_partial returns Err(StreamCipherError).
C1_OverBudgetFails ==
    (IsPartial /\ RemAtCall # None /\ BlocksNeeded > RemAtCall)
        => call.res = "Err"

\* C2: try_apply_keystream_partial returns Ok whenever remaining_blocks() is
\* None or ceil(len / BlockSize) <= remaining.
C2_WithinBudgetSucceeds ==
    (IsPartial /\ (RemAtCall = None \/ BlocksNeeded <= RemAtCall))
        => call.res = "Ok"

\* C3: when try_apply_keystream_partial returns the error, no keystream block
\* was generated, the counter is where it was, no byte of the buffer was read
\* or written, and the output side holds what it held before.
C3_ErrorBeforeAnyEffect ==
    (IsPartial /\ call.res = "Err")
        => /\ call.gen = 0
           /\ call.endpos = call.start
           /\ call.log = <<>>
           /\ call.out = call.before

\* A failed call on a buffer that has complete leading blocks and a tail.
C3_Witness ==
    /\ IsPartial
    /\ call.res = "Err"
    /\ Len(call.input) > bs
    /\ Len(call.input) % bs # 0
    /\ ~call.alias

\* C4: when try_apply_keystream_partial succeeds, the output has the length of
\* the input, output byte i is input byte i xor byte i of the keystream that
\* starts at the counter position at call time, and every write lies within
\* the buffer, the tail being written as exactly its tail_len bytes.
C4_PartialOutput ==
    (IsPartial /\ call.res = "Ok")
        => LET len == Len(call.input)
               tail == IF len > bs THEN len % bs ELSE len
           IN /\ Len(call.out) = len
              /\ \A i \in 1..len :
                    call.out[i] = XorByte(call.input[i], KeystreamByteAt(call.start, i))
              /\ \A e \in 1..Len(call.log) :
                    call.log[e][1] = "w" => (call.log[e][2] >= 1 /\ call.log[e][3] <= len)
              /\ tail > 0 =>
                    call.log[Len(call.log)] = <<"w", len - tail + 1, len>>

\* A successful call on complete leading blocks and an unaligned tail.
C4_Witness ==
    /\ IsPartial
    /\ call.res = "Ok"
    /\ Len(call.input) > 2 * bs
    /\ Len(call.input) % bs = 1
    /\ call.gen = 3
    /\ call.out # call.input

------------------------------------------------------------------------------
\* Properties of the block traits.

\* The slice-pair methods.
B2bOps == {"encrypt_blocks_b2b", "decrypt_blocks_b2b",
           "encrypt_blocks_b2b_mut", "decrypt_blocks_b2b_mut"}
\* The methods that go through the slice closure, BlocksCtx.
EncryptSliceOps == {"encrypt_blocks_b2b", "encrypt_blocks_b2b_mut",
                    "encrypt_blocks", "encrypt_blocks_mut",
                    "encrypt_blocks_inout", "encrypt_blocks_inout_mut"}
DecryptSliceOps == {"decrypt_blocks_b2b", "decrypt_blocks_b2b_mut",
                    "decrypt_blocks", "decrypt_blocks_mut",
                    "decrypt_blocks_inout", "decrypt_blocks_inout_mut"}
SliceOps == EncryptSliceOps \cup DecryptSliceOps
\* The methods that go through the single-block closure, BlockCtx.
SingleOps == {"encrypt_block", "encrypt_block_mut", "encrypt_block_inout",
              "encrypt_block_inout_mut", "encrypt_block_b2b", "encrypt_block_b2b_mut",
              "decrypt_block", "decrypt_block_mut", "decrypt_block_inout",
              "decrypt_block_inout_mut", "decrypt_block_b2b", "decrypt_block_b2b_mut"}
BlockOps == SliceOps \cup SingleOps

\* Direction and buffer view of the last call on the block cipher.
CallDir == IF call.op \in EncryptSliceOps THEN "enc" ELSE "dec"
CallView == IF call.alias THEN InOutBufFromMut(call.input)
                          ELSE InOutBufDisjoint(call.input, call.before)
\* Number of blocks of the input of the last call.
CallBlocks == Len(call.input) \div bs

\* C5: a slice-pair method given slices of different lengths returns
\* Err(NotEqualError) without panicking, calls no backend method and leaves
\* the output slice as it was; given equal lengths it returns Ok.
C5_LengthMismatch ==
    call.op \in B2bOps
        => IF Len(call.input) # Len(call.before)
           THEN /\ call.res = "Err"
                /\ ~call.panic
                /\ call.trace = <<>>
                /\ call.disp = <<>>
                /\ call.log = <<>>
                /\ call.out = call.before
           ELSE call.res = "Ok"

\* decrypt_blocks_b2b_mut with 5 input blocks and 4 output blocks.
C5_Witness ==
    /\ call.op = "decrypt_blocks_b2b_mut"
    /\ Len(call.input) = 5 * bs
    /\ Len(call.before) = 4 * bs
    /\ call.res = "Err"

\* C6: with a lane width L > 1 the slice closure produces the output, and the
\* sequence of proc_block calls, that it produces on the same input with
\* lane width 1.
C6_BatchingTransparent ==
    (call.op \in SliceOps /\ call.res = "Ok" /\ lanes > 1)
        => LET one == BlocksCtxCall(BackendRun(key, CallView), CallBlocks, 1,
                                    CallDir, key, bs)
           IN /\ call.out = one.buf.out
              /\ call.trace = one.trace
              /\ ~call.panic

\* A batched call that used two lane groups and a tail.
C6_Witness ==
    /\ call.op = "encrypt_blocks_b2b"
    /\ call.res = "Ok"
    /\ lanes = 3
    /\ CallBlocks = 8
    /\ Len(call.disp) = 3
    /\ call.out # call.before

\* C7: with a lane width L > 1 the slice closure makes floor(N / L)
\* proc_par_blocks calls on consecutive groups in index order, then one
\* proc_tail_blocks call on the last N mod L blocks, and proc_block meets
\* every block 0..N-1 once, in increasing order.
C7_ChunkOrdering ==
    (call.op \in SliceOps /\ call.res = "Ok" /\ lanes > 1)
        => LET groups == CallBlocks \div lanes
           IN /\ Len(call.disp) = groups + 1
              /\ \A c \in 1..groups : call.disp[c] = <<"par", (c - 1) * lanes, lanes>>
              /\ call.disp[groups + 1] = <<"tail", groups * lanes, CallBlocks % lanes>>
              /\ call.trace = [i \in 1..CallBlocks |-> i - 1]

\* N = 10 and L = 4: two full groups and a tail of two.
C7_Witness ==
    /\ call.op \in SliceOps
    /\ call.res = "Ok"
    /\ lanes = 4
    /\ CallBlocks = 10
    /\ call.disp = << <<"par", 0, 4>>, <<"par", 4, 4>>, <<"tail", 8, 2>> >>

------------------------------------------------------------------------------
\* Properties of the stream cipher core.

\* Two entries of an access log touch a common byte.
Overlap(e, f) == e[2] <= f[3] /\ f[2] <= e[3]

\* C8: apply_keystream_blocks on an in-place view yields the output it yields
\* on a disjoint output buffer with the same input and keystream; the combine
\* loop reads input block i, then writes output block i, block after block in
\* index order, and reads no position it has written.
C8_AliasingSafe ==
    call.op = "apply_keystream_blocks"
        => LET n == CallBlocks
               apart == ApplyKeystreamBlocks(
                            CoreRun(call.start,
                                    InOutBufDisjoint(call.input, Fresh(Len(call.input)))),
                            0, n, key, bounded, lanes, bs)
           IN /\ call.alias => call.out = apart.buf.out
              /\ Len(call.log) = 2 * n
              /\ \A i \in 1..n :
                    /\ call.log[(2 * i) - 1] = <<"r", BlockLo(i - 1, bs), BlockHi(i - 1, bs)>>
                    /\ call.log[2 * i] = <<"w", BlockLo(i - 1, bs), BlockHi(i - 1, bs)>>
              /\ \A p \in 1..Len(call.log), q \in 1..Len(call.log) :
                    (p < q /\ call.log[p][1] = "w" /\ call.log[q][1] = "r")
                        => ~Overlap(call.log[p], call.log[q])

\* An in-place application on three blocks.
C8_Witness ==
    /\ call.op = "apply_keystream_blocks"
    /\ call.alias
    /\ CallBlocks = 3
    /\ call.out # call.input

\* C9: applying the keystream, seeking back to the starting position and
\* applying the keystream to the result returns the original data.
C9_RoundTrip ==
    (call.op \in ApplyOps /\ call.chained /\ call.res = "Ok")
        => call.out = call.prevIn

\* A round trip of unaligned data through try_apply_keystream_partial.
C9_Witness ==
    /\ IsPartial
    /\ call.chained
    /\ call.res = "Ok"
    /\ Len(call.input) > bs
    /\ Len(call.input) % bs # 0
    /\ call.input # call.prevIn
    /\ call.start # 0

\* A round trip of block-aligned data through apply_keystream_blocks.
C9_WitnessAligned ==
    /\ call.op = "apply_keystream_blocks"
    /\ call.chained
    /\ CallBlocks = 2
    /\ call.input # call.prevIn

\* The keystream methods that leave the budget check to the caller
\* ("WARNING: this method does not check number of remaining blocks!").
UncheckedOps == {"write_keystream_blocks", "apply_keystream_blocks"}

\* A step is a call of a method that generates keystream.
KeystreamCallStep == call' # call /\ call'.op \in StreamOps

\* A step is a call of one of the three keystream methods, the caller having
\* kept within remaining_blocks() where the method leaves that check to it.
CheckedKeystreamCallStep ==
    /\ KeystreamCallStep
    /\ call'.op \in UncheckedOps \cup {"try_apply_keystream_partial"}
    /\ call'.op \in UncheckedOps => call'.gen <= RemainingBlocks(counter, bounded)

C10_MonotonicWithinBudget ==
    [][(bounded /\ CheckedKeystreamCallStep
          /\ CeilDiv(Len(call'.input), bs) <= RemainingBlocks(counter, bounded))
            => /\ counter' >= counter
               /\ counter' = counter + call'.gen
      ]_vars

\* C11: a successful try_apply_keystream_partial generates exactly
\* ceil(len / BlockSize) keystream blocks, and on a bounded counter that
\* number does not exceed remaining_blocks() as reported when the call started.
C11_BlocksGenerated ==
    (IsPartial /\ call.res = "Ok")
        => /\ call.gen = BlocksNeeded
           /\ RemAtCall # None => call.gen <= RemAtCall

------------------------------------------------------------------------------
\* The fail-fast assertion of the chunking engine.

\* The proc_tail_blocks calls of the last call on the block cipher.
TailCalls == {i \in 1..Len(call.disp) : call.disp[i][1] = "tail"}

\* C12: for every block count N >= 0 and lane width L >= 1, the assertion
\* blocks.len() < L of the default proc_tail_blocks does not fire when
\* reached from the slice closure: with L > 1 the one tail handed over holds
\* N mod L < L blocks, and with L = 1 neither proc_par_blocks nor
\* proc_tail_blocks is called and every block goes through proc_block.
C12_TailAssertionHolds ==
    /\ call.op \in BlockOps => ~call.panic
    /\ call.op \in SliceOps
          => /\ \A i \in TailCalls : call.disp[i][3] < lanes
             /\ (call.res = "Ok" /\ lanes > 1)
                    => /\ Cardinality(TailCalls) = 1
                       /\ \A i \in TailCalls : call.disp[i][3] = CallBlocks % lanes
             /\ (call.res = "Ok" /\ lanes = 1)
                    => /\ call.disp = <<>>
                       /\ call.trace = [i \in 1..CallBlocks |-> i - 1]

\* N = 8 and L = 4: the lane width divides the block count and the tail
\* that reaches the assertion is empty.
C12_Witness ==
    /\ call.op \in SliceOps
    /\ call.res = "Ok"
    /\ ~call.panic
    /\ lanes = 4
    /\ CallBlocks = 8
    /\ call.disp[Len(call.disp)] = <<"tail", 8, 0>>
    /\ Len(call.trace) = 8

\* N = 10 and L = 1: no group or tail call, ten proc_block calls.
C12_WitnessScalar ==
    /\ call.op \in SliceOps
    /\ call.res = "Ok"
    /\ lanes = 1
    /\ CallBlocks = 10
    /\ call.disp = <<>>
    /\ Len(call.trace) = 10

\* N = 3 and L = 4: no full group, the tail holds all three blocks.
C12_WitnessShort ==
    /\ call.op \in SliceOps
    /\ call.res = "Ok"
    /\ lanes = 4
    /\ CallBlocks = 3
    /\ call.disp = << <<"tail", 0, 3>> >>

====
